---- MODULE Spec2Model ----
(***************************************************************************)
(* Model of package kmod (kmod.go): a Go binding over libkmod.             *)
(*                                                                         *)
(* One caller goroutine creates a Kmod with NewKmod and issues operations  *)
(* on it (List, Lookup, ModuleFromName, Insert, Remove).  The Go runtime   *)
(* runs the finalizer registered by NewKmod (the method cleanup) on its    *)
(* own goroutine once the Kmod is unreachable.  libkmod is the environment: *)
(* every native call returns a status, and a list where it has one,       *)
(* chosen nondeterministically.                                            *)
(***************************************************************************)
EXTENDS Integers, Sequences, FiniteSets, TLC

\* ---- bounds of the model ----
MaxOps == 2        \* operations the caller issues on one Kmod
MaxMatches == 2    \* longest list an alias lookup yields
MaxRelease == 2    \* direct invocations of cleanup besides the finalizer

\* ---- the native world ----
Installed == {"a", "b"}            \* modules libkmod can resolve
Names == Installed \cup {"x"}      \* strings a caller passes; "x" names no module
Statuses == {-19, -2, 0}           \* C.int results: -ENODEV, -ENOENT, success
NULL == "NULL"                     \* the nil *C.struct_kmod_ctx
CTX == "ctx"                       \* the handle kmod_new hands out

VARIABLES
  pc,        \* caller: "start", "idle", "native", "loop", "closing", "done"
  ctx,       \* the field Kmod.ctx
  obj,       \* a *Kmod was returned by NewKmod
  finalizer, \* "unset", "set" (runtime.SetFinalizer), "ran"
  session,   \* the native kmod_ctx: "none", "live", "released"
  sessLog,   \* native session-lifecycle calls, in order
  cleanups,  \* invocations of the method cleanup so far
  loaded,    \* modules currently loaded in the kernel
  loaded0,   \* loaded when the current operation began
  cur,       \* the operation in progress: [op, arg, last]
  modules,   \* Insert/Remove: the slice the loop ranges over
  idx,       \* Insert/Remove: position of the loop in modules
  calls,     \* native calls issued by the current (or last) operation
  ret,       \* what the last finished operation returned
  prev,      \* summary of the result returned before ret
  nops       \* operations started so far

vars == <<pc, ctx, obj, finalizer, session, sessLog, cleanups, loaded, loaded0,
          cur, modules, idx, calls, ret, prev, nops>>

lifeVars == <<ctx, obj, finalizer, session, sessLog, cleanups>>
opVars == <<cur, modules, idx, calls, ret, prev, nops, loaded0>>

\* ---- values ----

\* every list an alias lookup can produce (native iteration order)
ModuleLists == UNION {[1..k -> Installed] : k \in 0..MaxMatches}

\* every order in which the native layer can enumerate the set S
Perms(S) == {s \in [1..Cardinality(S) -> S] : {s[i] : i \in 1..Cardinality(S)} = S}

\* C.strerror over the error numbers the model uses
goStrerror(err) ==
  CASE err = 2 -> "No such file or directory"
    [] err = 19 -> "No such device"
    [] OTHER -> "Unknown error"

\* an error value built by fmt.Errorf: which message, about which name, with
\* which rendered native error
Err(kind, name, msg) == [kind |-> kind, name |-> name, msg |-> msg]
NoErr == Err("nil", "", "")

\* newModule: the Go handle around a native module
newModule(m) == [mod |-> m]

\* Module.Name: kmod_module_get_name of the wrapped module
Name(module) == module.mod

\* newModuleList: the native list adapted to a slice of handles, in order
newModuleList(list) == [i \in 1..Len(list) |-> newModule(list[i])]

\* a native call as logged: function, argument, status, the list or handle
\* it gave back, and whether the session had already been released when it
\* completed
NativeCall(fn, arg, status, out) ==
  [fn |-> fn, arg |-> arg, status |-> status, out |-> out,
   released |-> session = "released"]

\* a returned value: err, whether the slice/handle is nil, and its elements
Result(op, arg, err, isNil, mods) ==
  [op |-> op, arg |-> arg, err |-> err, isNil |-> isNil, mods |-> mods]
NoResult == Result("none", "", NoErr, TRUE, <<>>)
Summary(r) == [op |-> r.op, arg |-> r.arg, ok |-> r.err = NoErr]

NoOp == [op |-> "none", arg |-> "", last |-> FALSE]

\* ---- the wrapper's functions, as functions of what libkmod answered ----

\* NewKmod without the check of kmod_load_resources' status
NewKmod_NoLoadCheck(c, st) ==
  IF c = NULL
    THEN [kmod |-> NULL, err |-> Err("InitError", "", ""),
          native |-> <<"kmod_new">>, finalizer |-> "unset"]
    ELSE [kmod |-> c, err |-> NoErr,
          native |-> <<"kmod_new", "kmod_load_resources">>, finalizer |-> "set"]

\* NewKmod: c is kmod_new's result, st is kmod_load_resources' status
NewKmod(c, st) ==
  IF c = NULL
    THEN [kmod |-> NULL, err |-> Err("InitError", "", ""),
          native |-> <<"kmod_new">>, finalizer |-> "unset"]
    ELSE IF st < 0
      THEN [kmod |-> NULL, err |-> Err("ResourceLoadError", "", goStrerror(-st)),
            native |-> <<"kmod_new", "kmod_load_resources">>, finalizer |-> "unset"]
      ELSE [kmod |-> c, err |-> NoErr,
            native |-> <<"kmod_new", "kmod_load_resources">>, finalizer |-> "set"]

\* List: st and list are kmod_module_new_from_loaded's status and list
List(st, list) ==
  IF st < 0
    THEN [err |-> Err("QueryError", "", goStrerror(-st)), isNil |-> TRUE,
          mods |-> <<>>, adapted |-> FALSE]
    ELSE [err |-> NoErr, isNil |-> FALSE, mods |-> newModuleList(list),
          adapted |-> TRUE]

\* Lookup that also treats an empty list as a failure
Lookup_RejectEmpty(aliasName, st, list) ==
  IF st < 0 \/ Len(list) = 0
    THEN [err |-> Err("QueryError", aliasName, goStrerror(-st)), isNil |-> TRUE,
          mods |-> <<>>, adapted |-> FALSE]
    ELSE [err |-> NoErr, isNil |-> FALSE, mods |-> newModuleList(list),
          adapted |-> TRUE]

\* Lookup: st and list are kmod_module_new_from_lookup's status and list
Lookup(aliasName, st, list) ==
  IF st < 0
    THEN [err |-> Err("QueryError", aliasName, goStrerror(-st)), isNil |-> TRUE,
          mods |-> <<>>, adapted |-> FALSE]
    ELSE [err |-> NoErr, isNil |-> FALSE, mods |-> newModuleList(list),
          adapted |-> TRUE]

\* ModuleFromName: st is kmod_module_new_from_name's status
ModuleFromName(name, st) ==
  IF st < 0
    THEN [err |-> Err("NotFoundError", name, goStrerror(-st)), isNil |-> TRUE,
          mods |-> <<>>]
    ELSE [err |-> NoErr, isNil |-> FALSE, mods |-> <<newModule(name)>>]

\* ---- initial state ----

Init ==
  /\ pc = "start"
  /\ ctx = NULL
  /\ obj = FALSE
  /\ finalizer = "unset"
  /\ session = "none"
  /\ sessLog = <<>>
  /\ cleanups = 0
  /\ loaded \in SUBSET Installed
  /\ loaded0 = loaded
  /\ cur = NoOp
  /\ modules = <<>>
  /\ idx = 1
  /\ calls = <<>>
  /\ ret = NoResult
  /\ prev = Summary(NoResult)
  /\ nops = 0

\* ---- NewKmod ----

CallNewKmod ==
  /\ pc = "start"
  /\ \E c \in {NULL, CTX}, st \in Statuses :
       LET r == NewKmod(c, st) IN
       /\ sessLog' = r.native
       /\ calls' = [i \in 1..Len(r.native) |->
                      IF i = 1 THEN NativeCall("kmod_new", "", 0, <<c>>)
                               ELSE NativeCall("kmod_load_resources", c, st, <<>>)]
       /\ session' = IF c = NULL THEN "none" ELSE "live"
       /\ ctx' = r.kmod
       /\ obj' = (r.kmod # NULL)
       /\ finalizer' = r.finalizer
       /\ ret' = Result("NewKmod", "", r.err, r.kmod = NULL, <<>>)
       /\ prev' = Summary(ret)
       /\ pc' = IF r.kmod = NULL THEN "done" ELSE "idle"
  /\ UNCHANGED <<cleanups, loaded, loaded0, cur, modules, idx, nops>>

\* ---- cleanup, the finalizer, explicit disposal ----

\* cleanup that forgets kmod.ctx = nil
cleanup_NoNil ==
  /\ cleanups' = cleanups + 1
  /\ IF ctx # NULL
       THEN /\ sessLog' = sessLog \o <<"kmod_unload_resources", "kmod_unref">>
            /\ session' = "released"
            /\ UNCHANGED ctx
       ELSE UNCHANGED <<sessLog, session, ctx>>

\* the method cleanup of Kmod, run to completion
cleanup ==
  /\ cleanups' = cleanups + 1
  /\ IF ctx # NULL
       THEN /\ sessLog' = sessLog \o <<"kmod_unload_resources", "kmod_unref">>
            /\ session' = "released"
            /\ ctx' = NULL
       ELSE UNCHANGED <<sessLog, session, ctx>>

\* the caller no longer holds the *Kmod and the running method, if any, has
\* read kmod.ctx for the last time
Unreachable ==
  \/ pc = "done"
  \/ pc \in {"native", "loop"} /\ cur.last

\* the runtime runs the finalizer, once, after the *Kmod became unreachable
Finalize ==
  /\ finalizer = "set"
  /\ Unreachable
  /\ cleanup
  /\ finalizer' = "ran"
  /\ UNCHANGED <<pc, obj, loaded>>
  /\ UNCHANGED opVars

\* cleanup invoked directly by the holder of the *Kmod, as its last use of it
Release ==
  /\ pc \in {"idle", "closing"}
  /\ cleanups < MaxRelease
  /\ cleanup
  /\ pc' = "closing"
  /\ UNCHANGED <<obj, finalizer, loaded>>
  /\ UNCHANGED opVars

\* the caller drops its last reference to the *Kmod
Drop ==
  /\ pc \in {"idle", "closing"}
  /\ pc' = "done"
  /\ UNCHANGED <<loaded>>
  /\ UNCHANGED lifeVars
  /\ UNCHANGED opVars

\* ---- entering and leaving an operation ----

\* the caller invokes a method on its Kmod; last says that this is the
\* caller's last use of the Kmod.  The method evaluates kmod.ctx and enters
\* its first native call.
Enter(op, arg, last) ==
  /\ pc = "idle"
  /\ nops < MaxOps
  /\ nops' = nops + 1
  /\ cur' = [op |-> op, arg |-> arg, last |-> last]
  /\ calls' = <<>>
  /\ loaded0' = loaded
  /\ modules' = <<>>
  /\ idx' = 1
  /\ pc' = "native"
  /\ UNCHANGED <<ret, prev, loaded>>
  /\ UNCHANGED lifeVars

\* the method returns r to the caller
Return(r) ==
  /\ ret' = r
  /\ prev' = Summary(ret)
  /\ pc' = IF cur.last THEN "done" ELSE "idle"

\* the native calls a lookup or an enumeration made: the query, and the
\* adaptation of its list when the wrapper adapted one
QueryCalls(fn, arg, a, r) ==
  <<NativeCall(fn, arg, a.st, a.list)>>
    \o (IF r.adapted THEN <<NativeCall("newModuleList", arg, 0, a.list)>> ELSE <<>>)

\* what kmod_module_new_from_loaded can answer
LoadedAnswers == 
  {[st |-> st, list |-> <<>>] : st \in {s \in Statuses : s < 0}}
    \cup {[st |-> 0, list |-> l] : l \in Perms(loaded)}

\* what kmod_module_new_from_lookup can answer for an alias: an installed
\* module's name resolves to that module; any other string is an alias of
\* any list of installed modules, the empty one included
LookupAnswers(aliasName) ==
  {[st |-> st, list |-> <<>>] : st \in {s \in Statuses : s < 0}}
    \cup {[st |-> 0, list |-> l] :
            l \in IF aliasName \in Installed THEN {<<aliasName>>} ELSE ModuleLists}

\* ---- List ----

ListCall ==
  /\ pc = "idle"
  /\ \E last \in BOOLEAN : Enter("List", "", last)

ListReturn ==
  /\ pc = "native" /\ cur.op = "List"
  /\ \E a \in LoadedAnswers :
       LET r == List(a.st, a.list) IN
       /\ calls' = calls \o QueryCalls("kmod_module_new_from_loaded", "", a, r)
       /\ Return(Result("List", "", r.err, r.isNil, r.mods))
  /\ UNCHANGED <<cur, modules, idx, nops, loaded0, loaded>>
  /\ UNCHANGED lifeVars

\* ---- Lookup ----

LookupCall ==
  /\ pc = "idle"
  /\ \E name \in Names, last \in BOOLEAN : Enter("Lookup", name, last)

LookupReturn ==
  /\ pc = "native" /\ cur.op = "Lookup"
  /\ \E a \in LookupAnswers(cur.arg) :
       LET r == Lookup(cur.arg, a.st, a.list) IN
       /\ calls' = calls \o QueryCalls("kmod_module_new_from_lookup", cur.arg, a, r)
       /\ Return(Result("Lookup", cur.arg, r.err, r.isNil, r.mods))
  /\ UNCHANGED <<cur, modules, idx, nops, loaded0, loaded>>
  /\ UNCHANGED lifeVars

\* ---- ModuleFromName ----

ModuleFromNameCall ==
  /\ pc = "idle"
  /\ \E name \in Names, last \in BOOLEAN : Enter("ModuleFromName", name, last)

\* kmod_module_new_from_name answers with a status only: libkmod builds the
\* handle from the name without checking that such a module exists
ModuleFromNameReturn ==
  /\ pc = "native" /\ cur.op = "ModuleFromName"
  /\ \E st \in Statuses :
       LET r == ModuleFromName(cur.arg, st) IN
       /\ calls' = Append(calls, NativeCall("kmod_module_new_from_name", cur.arg, st,
                                 IF st < 0 THEN <<>> ELSE <<cur.arg>>))
       /\ Return(Result("ModuleFromName", cur.arg, r.err, r.isNil, r.mods))
  /\ UNCHANGED <<cur, modules, idx, nops, loaded0, loaded>>
  /\ UNCHANGED lifeVars

\* ---- Insert ----

InsertCall ==
  /\ pc = "idle"
  /\ \E name \in Names, last \in BOOLEAN : Enter("Insert", name, last)

\* Insert that drops the error of its Lookup and ranges over what it got
InsertLookup_IgnoreError ==
  /\ pc = "native" /\ cur.op = "Insert"
  /\ \E a \in LookupAnswers(cur.arg) :
       LET r == Lookup(cur.arg, a.st, a.list) IN
       /\ calls' = calls \o QueryCalls("kmod_module_new_from_lookup", cur.arg, a, r)
       /\ modules' = r.mods
       /\ idx' = 1
       /\ pc' = "loop"
       /\ UNCHANGED <<ret, prev>>
  /\ UNCHANGED <<cur, nops, loaded0, loaded>>
  /\ UNCHANGED lifeVars

\* modules, err := kmod.Lookup(name); if err != nil { return err }
InsertLookup ==
  /\ pc = "native" /\ cur.op = "Insert"
  /\ \E a \in LookupAnswers(cur.arg) :
       LET r == Lookup(cur.arg, a.st, a.list) IN
       /\ calls' = calls \o QueryCalls("kmod_module_new_from_lookup", cur.arg, a, r)
       /\ IF r.err # NoErr
            THEN /\ Return(Result("Insert", cur.arg, r.err, TRUE, <<>>))
                 /\ UNCHANGED <<modules, idx>>
            ELSE /\ modules' = r.mods
                 /\ idx' = 1
                 /\ pc' = "loop"
                 /\ UNCHANGED <<ret, prev>>
  /\ UNCHANGED <<cur, nops, loaded0, loaded>>
  /\ UNCHANGED lifeVars

\* the Insert loop that probes the same module again after a negative status
InsertLoop_RetryOnError ==
  /\ pc = "loop" /\ cur.op = "Insert"
  /\ IF idx > Len(modules)
       THEN /\ Return(Result("Insert", cur.arg, NoErr, TRUE, <<>>))
            /\ UNCHANGED <<calls, loaded, idx>>
       ELSE \E errCode \in Statuses :
              /\ calls' = Append(calls,
                   NativeCall("kmod_module_probe_insert_module", modules[idx].mod,
                              errCode, <<>>))
              /\ loaded' = IF errCode < 0 THEN loaded ELSE loaded \cup {modules[idx].mod}
              /\ idx' = IF errCode < 0 THEN idx ELSE idx + 1
              /\ UNCHANGED <<pc, ret, prev>>
  /\ UNCHANGED <<cur, modules, nops, loaded0>>
  /\ UNCHANGED lifeVars

\* the Insert loop without the return on a negative status
InsertLoop_ContinueOnError ==
  /\ pc = "loop" /\ cur.op = "Insert"
  /\ IF idx > Len(modules)
       THEN /\ Return(Result("Insert", cur.arg, NoErr, TRUE, <<>>))
            /\ UNCHANGED <<calls, loaded, idx>>
       ELSE \E errCode \in Statuses :
              /\ calls' = Append(calls,
                   NativeCall("kmod_module_probe_insert_module", modules[idx].mod,
                              errCode, <<>>))
              /\ loaded' = IF errCode < 0 THEN loaded ELSE loaded \cup {modules[idx].mod}
              /\ idx' = idx + 1
              /\ UNCHANGED <<pc, ret, prev>>
  /\ UNCHANGED <<cur, modules, nops, loaded0>>
  /\ UNCHANGED lifeVars

\* one iteration of the range loop, or the return after it.  A probe-insert
\* that reports a non-negative status leaves the module loaded.
InsertLoop ==
  /\ pc = "loop" /\ cur.op = "Insert"
  /\ IF idx > Len(modules)
       THEN /\ Return(Result("Insert", cur.arg, NoErr, TRUE, <<>>))
            /\ UNCHANGED <<calls, loaded, idx>>
       ELSE \E errCode \in Statuses :
              /\ calls' = Append(calls,
                   NativeCall("kmod_module_probe_insert_module", modules[idx].mod,
                              errCode, <<>>))
              /\ IF errCode < 0
                   THEN /\ Return(Result("Insert", cur.arg,
                             Err("InsertError", Name(modules[idx]), goStrerror(-errCode)),
                             TRUE, <<>>))
                        /\ UNCHANGED <<loaded, idx>>
                   ELSE /\ loaded' = loaded \cup {modules[idx].mod}
                        /\ idx' = idx + 1
                        /\ UNCHANGED <<pc, ret, prev>>
  /\ UNCHANGED <<cur, modules, nops, loaded0>>
  /\ UNCHANGED lifeVars

\* ---- Remove ----

RemoveCall ==
  /\ pc = "idle"
  /\ \E name \in Names, last \in BOOLEAN : Enter("Remove", name, last)

\* modules, err := kmod.Lookup(name); if err != nil { return err }
RemoveLookup ==
  /\ pc = "native" /\ cur.op = "Remove"
  /\ \E a \in LookupAnswers(cur.arg) :
       LET r == Lookup(cur.arg, a.st, a.list) IN
       /\ calls' = calls \o QueryCalls("kmod_module_new_from_lookup", cur.arg, a, r)
       /\ IF r.err # NoErr
            THEN /\ Return(Result("Remove", cur.arg, r.err, TRUE, <<>>))
                 /\ UNCHANGED <<modules, idx>>
            ELSE /\ modules' = r.mods
                 /\ idx' = 1
                 /\ pc' = "loop"
                 /\ UNCHANGED <<ret, prev>>
  /\ UNCHANGED <<cur, nops, loaded0, loaded>>
  /\ UNCHANGED lifeVars

\* the statuses kmod_module_remove_module can report for module m: the
\* kernel cannot unload a module that is not loaded
RemoveStatuses(m) ==
  IF m \in loaded THEN Statuses ELSE {s \in Statuses : s < 0}

\* the Remove loop without the return on a negative status
RemoveLoop_ContinueOnError ==
  /\ pc = "loop" /\ cur.op = "Remove"
  /\ IF idx > Len(modules)
       THEN /\ Return(Result("Remove", cur.arg, NoErr, TRUE, <<>>))
            /\ UNCHANGED <<calls, loaded, idx>>
       ELSE \E errCode \in RemoveStatuses(modules[idx].mod) :
              /\ calls' = Append(calls,
                   NativeCall("kmod_module_remove_module", modules[idx].mod,
                              errCode, <<>>))
              /\ loaded' = IF errCode < 0 THEN loaded ELSE loaded \ {modules[idx].mod}
              /\ idx' = idx + 1
              /\ UNCHANGED <<pc, ret, prev>>
  /\ UNCHANGED <<cur, modules, nops, loaded0>>
  /\ UNCHANGED lifeVars

\* one iteration of the range loop, or the return after it.  A remove that
\* reports a non-negative status leaves the module unloaded.
RemoveLoop ==
  /\ pc = "loop" /\ cur.op = "Remove"
  /\ IF idx > Len(modules)
       THEN /\ Return(Result("Remove", cur.arg, NoErr, TRUE, <<>>))
            /\ UNCHANGED <<calls, loaded, idx>>
       ELSE \E errCode \in RemoveStatuses(modules[idx].mod) :
              /\ calls' = Append(calls,
                   NativeCall("kmod_module_remove_module", modules[idx].mod,
                              errCode, <<>>))
              /\ IF errCode < 0
                   THEN /\ Return(Result("Remove", cur.arg,
                             Err("RemoveError", Name(modules[idx]), goStrerror(-errCode)),
                             TRUE, <<>>))
                        /\ UNCHANGED <<loaded, idx>>
                   ELSE /\ loaded' = loaded \ {modules[idx].mod}
                        /\ idx' = idx + 1
                        /\ UNCHANGED <<pc, ret, prev>>
  /\ UNCHANGED <<cur, modules, nops, loaded0>>
  /\ UNCHANGED lifeVars

Next ==
  \/ CallNewKmod
  \/ ListCall
  \/ ListReturn
  \/ LookupCall
  \/ LookupReturn
  \/ ModuleFromNameCall
  \/ ModuleFromNameReturn
  \/ InsertCall
  \/ InsertLookup
  \/ InsertLoop
  \/ RemoveCall
  \/ RemoveLookup
  \/ RemoveLoop
  \/ Finalize
  \/ Release
  \/ Drop

Spec == Init /\ [][Next]_vars

\* ====================== properties ======================

\* how often the native function fn was called on the session
Count(fn) == Cardinality({i \in DOMAIN sessLog : sessLog[i] = fn})

\* operation op has returned and no later operation has begun
Finished(op) == cur.op = op /\ ret.op = op /\ pc \notin {"native", "loop"}

\* C1: however often cleanup is invoked on a Kmod, kmod_unload_resources
\* and kmod_unref are each called exactly once, by the first invocation;
\* later invocations issue no native call and the handle stays inert
\* (ctx = nil).
C1_ReleaseIdempotent ==
  /\ cleanups = 0 => Count("kmod_unload_resources") = 0 /\ Count("kmod_unref") = 0
  /\ cleanups >= 1 =>
       /\ Count("kmod_unload_resources") = 1
       /\ Count("kmod_unref") = 1
       /\ ctx = NULL

\* cleanup has been invoked three times on one Kmod (twice directly, once
\* by the finalizer) and the session was released once
C1_Witness ==
  /\ cleanups >= 3
  /\ finalizer = "ran"
  /\ Count("kmod_unref") = 1

\* C2: every session kmod_new handed out is released exactly once on every
\* exit path: once the caller is done and no finalizer is pending, no
\* created session is still live.
C2_SessionReleasedOnEveryExit ==
  (pc = "done" /\ finalizer # "set") =>
     /\ session # "live"
     /\ Count("kmod_unref") = (IF session = "none" THEN 0 ELSE 1)

\* C3: the native session is never released while an operation on the
\* Kmod is in flight, and no native call of an operation completes on a
\* released session.
C3_NoReleaseWhileInUse ==
  /\ pc \in {"native", "loop"} => session # "released"
  /\ \A i \in DOMAIN calls : ~calls[i].released

\* the calls of native function fn the current operation issued, in order
Issued(fn) == SelectSeq(calls, LAMBDA c : c.fn = fn)

\* C4: Insert is fail-fast with no rollback: when the probe-insert of the
\* i-th module of the Lookup result reports a negative status, Insert
\* returns an error naming that module, issues no probe-insert after
\* position i and no remove, and the modules inserted before stay loaded.
C4_InsertFailFast ==
  cur.op = "Insert" =>
    LET P == Issued("kmod_module_probe_insert_module") IN
    /\ Issued("kmod_module_remove_module") = <<>>
    /\ Len(P) <= Len(modules)
    /\ \A j \in DOMAIN P :
         /\ P[j].arg = modules[j].mod
         /\ P[j].status >= 0 => modules[j].mod \in loaded
         /\ P[j].status < 0 =>
              /\ j = Len(P)
              /\ Finished("Insert")
              /\ ret.err = Err("InsertError", Name(modules[j]), goStrerror(-P[j].status))

\* Insert over two different modules: the first was newly inserted, the
\* second failed, Insert returned the error and the first is still loaded
C4_Witness ==
  /\ Finished("Insert")
  /\ Len(modules) = 2
  /\ modules[1] # modules[2]
  /\ Len(Issued("kmod_module_probe_insert_module")) = 2
  /\ Issued("kmod_module_probe_insert_module")[1].status >= 0
  /\ Issued("kmod_module_probe_insert_module")[2].status < 0
  /\ ret.err.kind = "InsertError"
  /\ ret.err.name = modules[2].mod
  /\ modules[1].mod \notin loaded0
  /\ modules[1].mod \in loaded

\* C5: Remove is fail-fast with no rollback: when the native remove of the
\* i-th module of the Lookup result reports a negative status, Remove
\* returns an error naming that module, issues no remove after position i
\* and no probe-insert, and the modules removed before stay removed.
C5_RemoveFailFast ==
  cur.op = "Remove" =>
    LET P == Issued("kmod_module_remove_module") IN
    /\ Issued("kmod_module_probe_insert_module") = <<>>
    /\ Len(P) <= Len(modules)
    /\ \A j \in DOMAIN P :
         /\ P[j].arg = modules[j].mod
         /\ P[j].status >= 0 => modules[j].mod \notin loaded
         /\ P[j].status < 0 =>
              /\ j = Len(P)
              /\ Finished("Remove")
              /\ ret.err = Err("RemoveError", Name(modules[j]), goStrerror(-P[j].status))

\* Remove over two different modules: the first was loaded and is removed,
\* the second failed, Remove returned the error and the first stays removed
C5_Witness ==
  /\ Finished("Remove")
  /\ Len(modules) = 2
  /\ modules[1] # modules[2]
  /\ Len(Issued("kmod_module_remove_module")) = 2
  /\ Issued("kmod_module_remove_module")[1].status >= 0
  /\ Issued("kmod_module_remove_module")[2].status < 0
  /\ ret.err.kind = "RemoveError"
  /\ ret.err.name = modules[2].mod
  /\ modules[1].mod \in loaded0
  /\ modules[1].mod \notin loaded

\* C6: when Insert(name) reported success, the List() issued right after
\* it, if it succeeds, contains a module named name.
C6_InsertThenListContains ==
  (ret.op = "List" /\ ret.err = NoErr /\ prev.op = "Insert" /\ prev.ok) =>
     \E i \in DOMAIN ret.mods : Name(ret.mods[i]) = prev.arg

\* C7: Remove(name), when neither name nor any module it resolves to was
\* loaded at the call, returns an error.
C7_RemoveNotLoadedIsError ==
  (/\ Finished("Remove")
   /\ cur.arg \notin loaded0
   /\ \A i \in DOMAIN modules : modules[i].mod \notin loaded0) =>
     ret.err # NoErr

\* C8: ModuleFromName on a name that corresponds to no module returns
\* NotFoundError and no handle; and it returns an error with a nil handle
\* exactly when kmod_module_new_from_name reports a negative status.
C8_ModuleFromNameUnknownIsError ==
  Finished("ModuleFromName") =>
    /\ cur.arg \notin Installed => (ret.err.kind = "NotFoundError" /\ ret.isNil)
    /\ calls[1].status < 0 <=> (ret.err.kind = "NotFoundError" /\ ret.isNil)
    /\ calls[1].status >= 0 <=> (ret.err = NoErr /\ ~ret.isNil)

\* the part of C8 the code does satisfy: error and nil handle exactly on a
\* negative native status, a handle and no error otherwise
ModuleFromNameFollowsStatus ==
  Finished("ModuleFromName") =>
    /\ calls[1].status < 0 <=> (ret.err.kind = "NotFoundError" /\ ret.isNil)
    /\ calls[1].status >= 0 <=> (ret.err = NoErr /\ ~ret.isNil)

\* C9: Lookup and List succeed exactly when the native status is
\* non-negative, whatever the length of the list: then the result is the
\* adapted list, in order, the empty one included; on a negative status
\* the result is an error rendering the negated status, no slice, and no
\* list is adapted.
C9_QuerySucceedsIffStatusNonNegative ==
  (Finished("Lookup") \/ Finished("List")) =>
    LET q == calls[1] IN
    /\ q.fn = IF cur.op = "Lookup" THEN "kmod_module_new_from_lookup"
                                   ELSE "kmod_module_new_from_loaded"
    /\ ret.err = NoErr <=> q.status >= 0
    /\ q.status >= 0 =>
         /\ ~ret.isNil
         /\ Len(ret.mods) = Len(q.out)
         /\ \A i \in DOMAIN q.out : ret.mods[i].mod = q.out[i]
    /\ q.status < 0 =>
         /\ ret.isNil
         /\ ret.mods = <<>>
         /\ ret.err = Err("QueryError", cur.arg, goStrerror(-q.status))
         /\ Len(calls) = 1

\* a Lookup whose native status was non-negative with zero matches
\* succeeded with an empty slice
C9_Witness ==
  /\ Finished("Lookup")
  /\ calls[1].status >= 0
  /\ calls[1].out = <<>>
  /\ ret.err = NoErr
  /\ ~ret.isNil
  /\ ret.mods = <<>>

\* C10: NewKmod returns a Kmod or an error, never both: InitError without
\* calling kmod_load_resources when kmod_new returns NULL,
\* ResourceLoadError and no Kmod when kmod_load_resources reports a
\* negative status; a Kmod, with the finalizer registered, only when both
\* succeed.
C10_CreateEitherOr ==
  /\ finalizer # "unset" => obj
  /\ (nops = 0 /\ ret.op = "NewKmod") =>
       LET created == calls[1].out[1] IN
       /\ obj <=> ~ret.isNil
       /\ obj <=> ret.err = NoErr
       /\ obj <=> finalizer # "unset"
       /\ created = NULL =>
            /\ ret.err.kind = "InitError"
            /\ Len(calls) = 1
            /\ Count("kmod_load_resources") = 0
       /\ created # NULL =>
            /\ Len(calls) = 2
            /\ calls[2].fn = "kmod_load_resources"
            /\ calls[2].status < 0 =>
                 /\ ret.err = Err("ResourceLoadError", "", goStrerror(-calls[2].status))
                 /\ ~obj
            /\ calls[2].status >= 0 => obj /\ (cleanups = 0 => ctx = created)

\* NewKmod failed with ResourceLoadError after a session was created
C10_Witness ==
  /\ ret.op = "NewKmod"
  /\ nops = 0
  /\ Len(calls) = 2
  /\ calls[2].status < 0
  /\ ret.err.kind = "ResourceLoadError"
  /\ ~obj

\* the native mutation an operation issues per module
Mutation(op) ==
  IF op = "Insert" THEN "kmod_module_probe_insert_module"
                   ELSE "kmod_module_remove_module"

\* C11: within one call of Insert (resp. Remove) the native probe-insert
\* (resp. remove) is issued at most once per entry of the Lookup result, in
\* the order of that result, and never again after a failure; when every
\* call reported a non-negative status it was issued exactly once for
\* every entry and the operation reports success.
C11_OncePerEntryInOrder ==
  cur.op \in {"Insert", "Remove"} =>
    LET P == Issued(Mutation(cur.op)) IN
    /\ Len(P) <= Len(modules)
    /\ \A j \in DOMAIN P : P[j].arg = modules[j].mod
    /\ \A j \in DOMAIN P : P[j].status < 0 => j = Len(P) /\ pc # "loop"
    /\ pc = "loop" => Len(P) = idx - 1
    /\ (Finished(cur.op) /\ calls[1].status >= 0
          /\ \A j \in DOMAIN P : P[j].status >= 0) =>
         /\ Len(P) = Len(modules)
         /\ ret.err = NoErr

\* Insert over a Lookup result of two entries: both probe-inserts reported
\* success, one call per entry in order, and Insert returned nil
C11_Witness ==
  /\ Finished("Insert")
  /\ Len(modules) = 2
  /\ modules[1] # modules[2]
  /\ Len(Issued("kmod_module_probe_insert_module")) = 2
  /\ \A j \in 1..2 :
       /\ Issued("kmod_module_probe_insert_module")[j].status >= 0
       /\ Issued("kmod_module_probe_insert_module")[j].arg = modules[j].mod
  /\ ret.err = NoErr

\* C12: if the alias Lookup inside Insert or Remove fails, the operation
\* returns that Lookup error, issues no probe-insert and no remove, and
\* leaves the set of loaded modules as it was when the operation began.
C12_LookupFailureIsReturned ==
  (cur.op \in {"Insert", "Remove"} /\ Len(calls) >= 1 /\ calls[1].status < 0) =>
    /\ calls[1].fn = "kmod_module_new_from_lookup"
    /\ Finished(cur.op)
    /\ ret.err = Lookup(cur.arg, calls[1].status, calls[1].out).err
    /\ ret.err = Err("QueryError", cur.arg, goStrerror(-calls[1].status))
    /\ Len(calls) = 1
    /\ Issued("kmod_module_probe_insert_module") = <<>>
    /\ Issued("kmod_module_remove_module") = <<>>
    /\ loaded = loaded0

\* Insert of an alias, with a module loaded, whose Lookup failed natively:
\* the Lookup error was returned and only the lookup was issued
C12_Witness ==
  /\ Finished("Insert")
  /\ cur.arg = "x"
  /\ loaded # {}
  /\ Len(calls) = 1
  /\ calls[1].fn = "kmod_module_new_from_lookup"
  /\ calls[1].status < 0
  /\ ret.err.kind = "QueryError"
  /\ loaded = loaded0

\* the native functions the operations call with the session as argument
SessionCalls ==
  {"kmod_module_new_from_loaded", "kmod_module_new_from_lookup",
   "kmod_module_new_from_name"}

\* the order inside cleanup: every kmod_unref on the session comes right
\* after a kmod_unload_resources, and every kmod_unload_resources is
\* followed by a kmod_unref
CleanupOrder ==
  \A i \in DOMAIN sessLog :
    /\ sessLog[i] = "kmod_unref" =>
         i > 1 /\ sessLog[i - 1] = "kmod_unload_resources"
    /\ sessLog[i] = "kmod_unload_resources" =>
         i < Len(sessLog) /\ sessLog[i + 1] = "kmod_unref"

\* C13: Release performs its two native steps in a fixed order,
\* kmod_unload_resources before kmod_unref on the same session, and no
\* native call on that session follows kmod_unref: kmod_unref is the last
\* lifecycle call, and no operation's call on the session runs after it.
C13_UnloadThenUnrefThenNothing ==
  /\ CleanupOrder
  /\ \A i \in DOMAIN sessLog : sessLog[i] = "kmod_unref" => i = Len(sessLog)
  /\ \A i \in DOMAIN calls : calls[i].fn \in SessionCalls => ~calls[i].released
====
